---- MODULE Spec2Model ----
(***************************************************************************)
(* Model of src/preprocessing/task.py: the Criteo preprocessing entry      *)
(* point (convert / analyse / transform) and its helper functions.         *)
(*                                                                         *)
(* Python values are modelled as follows.                                  *)
(*   - None is the record None; a str s is PyStr(s); so that the string    *)
(*     'None' and the value None are different values.                     *)
(*   - A GCS path is [proto, parts]: parts is the sequence of path         *)
(*     components ("bucket", "dir", "name"), proto is the sequence of      *)
(*     'gs://' prefixes in front of it (user paths carry one, the names    *)
(*     fsspec returns carry none).                                         *)
(*   - A column name is a sequence of tokens: "I" + str(13) is             *)
(*     <<"I", "1", "3">>.                                                  *)
(***************************************************************************)
EXTENDS Integers, Sequences, FiniteSets, TLC

VARIABLES
    pc,             \* position in the script / in the running task function
    task_fn,        \* the task function that is running, or "none"
    ran,            \* sequence of the task functions that were called
    args,           \* the parsed command line (parse_args)
    files,          \* object store: the set of existing objects (parts)
    bucketState,    \* object store: per bucket "ok", "missing" or "denied"
    call,           \* arguments of a helper called on its own, None in the script
    client,         \* local `client` of the task function
    clientsCreated, \* number of Client objects constructed by create_cluster
    dataset,        \* local `dataset` of the task function
    workflow,       \* local `criteo_workflow` of the task function
    transformed_dataset, \* local `transformed_dataset` of main_transform
    written,        \* what was written to storage (to_parquet, workflow.save)
    log,            \* logging.info messages
    trace,          \* library operations performed, in order
    exc             \* the exception that ended the process, or "none"

vars == <<pc, task_fn, ran, args, files, bucketState, call, client,
          clientsCreated, dataset, workflow, transformed_dataset, written, log,
          trace, exc>>

-----------------------------------------------------------------------------
(* Bounds of the model *)

MaxPaths == 2

-----------------------------------------------------------------------------
(* Python values *)

None == [t |-> "NoneType", v |-> "None"]

PyStr(s) == [t |-> "str", v |-> s]

PyList(l) == [t |-> "list", v |-> l]

Range(s) == {s[i] : i \in 1..Len(s)}

RECURSIVE SeqsUpTo(_, _)
SeqsUpTo(S, n) ==
    IF n = 0 THEN {<<>>}
    ELSE LET shorter == SeqsUpTo(S, n - 1)
         IN  shorter \cup {Append(s, x) : s \in {q \in shorter : Len(q) = n - 1}, x \in S}

-----------------------------------------------------------------------------
(* The object store (fsspec.filesystem('gs')) *)

Buckets == {"b1", "b2"}

\* Every object or directory name the model's store can hold, in the sorted
\* order in which fsspec's glob returns names.
AllEntries ==
    << <<"b1", "a.csv">>,
       <<"b1", "d">>,
       <<"b1", "d", "e">>,
       <<"b1", "d", "e", "y.csv">>,
       <<"b1", "d", "p.parquet">>,
       <<"b1", "d", "x.csv">>,
       <<"b2", "z.csv">> >>

FileUniverse ==
    { <<"b1", "a.csv">>, <<"b1", "d", "e", "y.csv">>, <<"b1", "d", "p.parquet">>,
      <<"b1", "d", "x.csv">>, <<"b2", "z.csv">> }

IsPrefix(p, q) == Len(p) <= Len(q) /\ SubSeq(q, 1, Len(p)) = p

\* Directories exist in an object store exactly where an object lies below.
Dirs(fs) == {e \in Range(AllEntries) : \E f \in fs : IsPrefix(e, f) /\ e # f}

Entries(fs) == fs \cup Dirs(fs)

GsPath(parts) == [proto |-> <<"gs://">>, parts |-> parts]

Bare(parts) == [proto |-> <<>>, parts |-> parts]

\* f'gs://{i}' (line 44) and os.path.join('gs://', i) (line 141)
GsPrefix(p) == [proto |-> <<"gs://">> \o p.proto, parts |-> p.parts]

\* os.path.join(path, name)
PathJoin(p, name) == [proto |-> p.proto, parts |-> Append(p.parts, name)]

\* The exception a lookup in the bucket of `p` raises, or "none".
LookupError(p) ==
    LET st == bucketState[p.parts[1]]
    IN  IF st = "missing" THEN "FileNotFoundError"
        ELSE IF st = "denied" THEN "OSError"
        ELSE "none"

\* fs.isfile(path): fsspec strips the protocol before looking the name up.
IsFile(p) == p.parts \in files

EndsWithParquet(name) == name \in {"p.parquet"}

\* fnmatch of one path component against the last component of a pattern
MatchName(pat, name) ==
    IF pat = "*" \/ pat = "**" THEN TRUE
    ELSE IF pat = "*.parquet" THEN EndsWithParquet(name)
    ELSE pat = name

\* fs.glob(pattern): the matching objects and directories, sorted, without
\* protocol. '*' matches one level, '**' any depth.
Glob(pattern) ==
    LET n    == Len(pattern.parts)
        base == SubSeq(pattern.parts, 1, n - 1)
        pat  == pattern.parts[n]
        hit(e) == /\ e \in Entries(files)
                  /\ IsPrefix(base, e)
                  /\ IF pat = "**" THEN Len(e) >= n ELSE Len(e) = n
                  /\ MatchName(pat, e[Len(e)])
        sel  == SelectSeq(AllEntries, hit)
    IN  [i \in 1..Len(sel) |-> Bare(sel[i])]

-----------------------------------------------------------------------------
(* get_criteo_col_dtypes (lines 229-242) *)

\* range(a, b)
PyRange(a, b) == [i \in 1..(b - a) |-> a + i - 1]

Digit == <<"0", "1", "2", "3", "4", "5", "6", "7", "8", "9">>

\* str(n) for n >= 0, as the sequence of its decimal digits
RECURSIVE Str(_)
Str(n) == IF n < 10 THEN <<Digit[n + 1]>>
          ELSE Str(n \div 10) \o <<Digit[(n % 10) + 1]>>

\* d[k] = v on an insertion-ordered dict, d a sequence of [k, v] items
DictSet(d, k, v) ==
    IF \E i \in 1..Len(d) : d[i].k = k
    THEN [i \in 1..Len(d) |-> IF d[i].k = k THEN [k |-> k, v |-> v] ELSE d[i]]
    ELSE Append(d, [k |-> k, v |-> v])

\* for x in [prefix + str(i) for i in idx]: d[x] = v
RECURSIVE DictSetAll(_, _, _, _, _)
DictSetAll(d, prefix, idx, j, v) ==
    IF j > Len(idx) THEN d
    ELSE DictSetAll(DictSet(d, <<prefix>> \o Str(idx[j]), v), prefix, idx, j + 1, v)

\* list(d.keys())
DictKeys(d) == [i \in 1..Len(d) |-> d[i].k]

ContStop == 14

CatStop == 27

\* The mapping with range(1, 13) for the integer columns
get_criteo_col_dtypes_short ==
    LET d0 == DictSet(<<>>, <<"label">>, "int32")
        d1 == DictSetAll(d0, "I", PyRange(1, ContStop - 1), 1, "int32")
    IN  DictSetAll(d1, "C", PyRange(1, CatStop), 1, "hex")

get_criteo_col_dtypes ==
    LET d0 == DictSet(<<>>, <<"label">>, "int32")
        d1 == DictSetAll(d0, "I", PyRange(1, ContStop), 1, "int32")
    IN  DictSetAll(d1, "C", PyRange(1, CatStop), 1, "hex")

-----------------------------------------------------------------------------
(* Library objects *)

Client(n) == [t |-> "Client", id |-> n]

\* nvt.Dataset(...): `applied` is the workflow whose transform produced the
\* dataset, None for a dataset read from files.
Dataset(file_list, engine, names, sep, dtypes, frac, cl) ==
    [t |-> "Dataset", files |-> file_list, engine |-> engine, names |-> names,
     sep |-> sep, dtypes |-> dtypes, part_mem_fraction |-> frac, client |-> cl,
     applied |-> None]

\* nvt.Workflow(features, client) / nvt.Workflow.load(path, client)
Workflow(origin, source, cl, fitted) ==
    [t |-> "Workflow", origin |-> origin, source |-> source, client |-> cl,
     fitted |-> fitted]

\* workflow.transform(dataset): a new dataset; the argument is not changed.
WorkflowTransform(wf, ds) == [ds EXCEPT !.applied = wf]

Ok(v) == [raised |-> "none", value |-> v]

Raise(e) == [raised |-> e, value |-> None]

-----------------------------------------------------------------------------
(* create_csv_dataset (lines 23-61) *)

\* The try block of one loop iteration (lines 37-50): valid_paths after it.
\* Both handlers print and fall through, so a raising lookup leaves the list
\* as it was.
ResolvePath(path, rec_symbol, valid_paths) ==
    IF LookupError(path) # "none" THEN valid_paths
    ELSE IF IsFile(path) THEN Append(valid_paths, path)
    ELSE LET found == SelectSeq(Glob(PathJoin(path, rec_symbol)), IsFile)
         IN  valid_paths \o [j \in 1..Len(found) |-> GsPrefix(found[j])]

\* The for loop (lines 36-61). The return statement of line 52 is indented
\* into the loop body, so the iteration that runs returns the dataset; a loop
\* over no path falls off the end of the function, which returns None.
CsvLoop(data_paths, i, valid_paths, rec_symbol, sep, col_dtypes, frac_size, cl) ==
    IF i > Len(data_paths) THEN None
    ELSE Dataset(ResolvePath(data_paths[i], rec_symbol, valid_paths), "csv",
                 DictKeys(col_dtypes), sep, col_dtypes, frac_size, cl)

\* Iterating over None (the flag was not given) raises TypeError.
create_csv_dataset(data_paths, sep, rec, col_dtypes, frac_size, cl) ==
    LET rec_symbol == IF rec THEN "**" ELSE "*"
    IN  IF data_paths.t # "list" THEN Raise("TypeError")
        ELSE Ok(CsvLoop(data_paths.v, 1, <<>>, rec_symbol, sep, col_dtypes,
                        frac_size, cl))

-----------------------------------------------------------------------------
(* Shuffle resolution, convert_csv_to_parquet (64-84), save_dataset (185-203) *)

\* Members of nvtabular.io.shuffle.Shuffle
ShuffleMembers == {"PER_PARTITION", "PER_WORKER", "FULL"}

\* Other attributes every Enum class has
ShuffleClassAttrs == {"__members__", "__name__", "__module__", "mro"}

\* getattr(Shuffle, name)
Getattr(name) ==
    IF name.t # "str" THEN Raise("TypeError")
    ELSE IF name.v \in ShuffleMembers THEN Ok([t |-> "Shuffle", v |-> name.v])
    ELSE IF name.v \in ShuffleClassAttrs THEN Ok([t |-> "attribute", v |-> name.v])
    ELSE Raise("AttributeError")

\* Lines 71-78 and 191-198: the value handed to to_parquet as shuffle
ResolveShuffle(sh) ==
    IF sh = PyStr("None") THEN None
    ELSE LET r == Getattr(sh)
         IN  IF r.raised # "none" THEN None ELSE r.value

\* dataset.to_parquet(...): the write it performs, or AttributeError on None
ToParquet(ds, output_path, sh, output_files) ==
    IF ds = None THEN Raise("AttributeError")
    ELSE Ok([kind |-> "parquet", path |-> output_path, content |-> ds,
             shuffle |-> sh, output_files |-> output_files])

convert_csv_to_parquet(output_path, ds, output_files, sh) ==
    ToParquet(ds, output_path, ResolveShuffle(sh), output_files)

save_dataset(ds, output_path, sh) ==
    ToParquet(ds, output_path, ResolveShuffle(sh), None)

-----------------------------------------------------------------------------
(* The other helpers *)

\* create_criteo_nvt_workflow (lines 87-102)
create_criteo_nvt_workflow(cl) == Workflow("fresh", None, cl, FALSE)

\* create_parquet_dataset (lines 127-148)
\* create_parquet_dataset without the check of lines 138-139
create_parquet_dataset_unchecked(cl, data_path, frac_size) ==
    LET pattern == PathJoin(data_path, "*.parquet")
        file_list == Glob(pattern)
    IN  IF data_path = None THEN Raise("TypeError")
        ELSE IF LookupError(pattern) # "none" THEN Raise(LookupError(pattern))
        ELSE Ok(Dataset([j \in 1..Len(file_list) |-> GsPrefix(file_list[j])],
                        "parquet", <<>>, None, <<>>, frac_size, cl))

\* os.path.join(None, ...) (the flag was not given) raises TypeError.
create_parquet_dataset(cl, data_path, frac_size) ==
    LET pattern == PathJoin(data_path, "*.parquet")
        file_list == Glob(pattern)
    IN  IF data_path = None THEN Raise("TypeError")
        ELSE IF LookupError(pattern) # "none" THEN Raise(LookupError(pattern))
        ELSE IF Len(file_list) = 0 THEN Raise("FileNotFoundError")
        ELSE Ok(Dataset([j \in 1..Len(file_list) |-> GsPrefix(file_list[j])],
                        "parquet", <<>>, None, <<>>, frac_size, cl))

\* analyze_dataset (lines 151-157): workflow.fit(dataset); return workflow
analyze_dataset(wf, ds) == [wf EXCEPT !.fitted = TRUE]

\* transform_dataset (lines 160-166): the result of workflow.transform is
\* dropped and the argument is returned.
transform_dataset(ds, wf) ==
    LET result == WorkflowTransform(wf, ds)
    IN  ds

\* load_workflow (lines 169-174)
load_workflow(workflow_path, cl) == Workflow("loaded", workflow_path, cl, TRUE)

\* save_workflow (lines 177-182): the write it performs
save_workflow(wf, output_path) ==
    [kind |-> "workflow", path |-> output_path, content |-> wf,
     shuffle |-> None, output_files |-> None]

-----------------------------------------------------------------------------
(* The task functions: the calls each makes, in order *)

\* main_convert (lines 245-269)
main_convert == <<"create_cluster", "create_csv_dataset", "convert_csv_to_parquet">>

\* main_analyse saving the workflow before fitting it
main_analyse_save_first == <<"create_cluster", "create_parquet_dataset",
                             "create_workflow", "save_workflow", "analyze_dataset">>

\* main_analyse (lines 272-296)
main_analyse == <<"create_cluster", "create_parquet_dataset", "create_workflow",
                  "analyze_dataset", "save_workflow">>

\* main_transform creating the cluster after the dataset
main_transform_late_cluster == <<"create_parquet_dataset", "create_cluster",
                                 "load_workflow", "transform_dataset",
                                 "save_dataset">>

\* main_transform (lines 299-331)
main_transform == <<"create_cluster", "create_parquet_dataset", "load_workflow",
                    "transform_dataset", "save_dataset">>

Body(fn) ==
    IF fn = "main_convert" THEN main_convert
    ELSE IF fn = "main_analyse" THEN main_analyse
    ELSE main_transform

\* The statement after `stmt` in the running task function; "end" is the
\* statement after the if/elif chain of the script (line 400).
NextStmt(fn, stmt) ==
    LET b == Body(fn)
        i == CHOOSE j \in 1..Len(b) : b[j] = stmt
    IN  IF i = Len(b) THEN "end" ELSE b[i + 1]

\* The chain with the branches of 'analyse' and 'transform' exchanged
SelectTask_swapped(task) ==
    IF task = PyStr("convert") THEN "main_convert"
    ELSE IF task = PyStr("analyse") THEN "main_transform"
    ELSE IF task = PyStr("transform") THEN "main_analyse"
    ELSE "none"

\* The chain with a final else that runs main_transform
SelectTask_default(task) ==
    IF task = PyStr("convert") THEN "main_convert"
    ELSE IF task = PyStr("analyse") THEN "main_analyse"
    ELSE "main_transform"

\* The if/elif chain of lines 393-398: the task function --task selects
SelectTask(task) ==
    IF task = PyStr("convert") THEN "main_convert"
    ELSE IF task = PyStr("analyse") THEN "main_analyse"
    ELSE IF task = PyStr("transform") THEN "main_transform"
    ELSE "none"

-----------------------------------------------------------------------------
(* Inputs *)

TaskValues == {PyStr("convert"), PyStr("analyse"), PyStr("transform"),
               PyStr("train"), None}

CsvPaths == {GsPath(<<"b1", "a.csv">>), GsPath(<<"b1", "d">>), GsPath(<<"b1">>),
             GsPath(<<"b2", "z.csv">>)}

ParquetPaths == {GsPath(<<"b1", "d">>), GsPath(<<"b2">>)}

OutputPath == GsPath(<<"out">>)

WorkflowPath == GsPath(<<"wf">>)

\* --csv_data_path has nargs='+': a list of at least one path when given
CsvPathLists == {l \in SeqsUpTo(CsvPaths, MaxPaths) : Len(l) >= 1}

\* parse_args (lines 334-379): flags that are not given are None; frac_size
\* has the default 0.10.
Args(task, csv, parquet) ==
    [task |-> task, csv_data_path |-> csv, parquet_data_path |-> parquet,
     output_path |-> OutputPath, workflow_path |-> WorkflowPath,
     output_files |-> 1, sep |-> PyStr(","), frac_size |-> "0.10"]

ArgSets ==
    {Args(PyStr("convert"), PyList(l), None) : l \in CsvPathLists}
    \cup {Args(t, None, p) : t \in {PyStr("analyse"), PyStr("transform")},
                             p \in ParquetPaths}
    \cup {Args(t, None, None) : t \in TaskValues}

StoreInit ==
    /\ files \in SUBSET FileUniverse
    /\ bucketState \in [Buckets -> {"ok", "missing", "denied"}]

LocalsInit ==
    /\ task_fn = "none"
    /\ ran = <<>>
    /\ client = None
    /\ clientsCreated = 0
    /\ dataset = None
    /\ workflow = None
    /\ transformed_dataset = None
    /\ written = <<>>
    /\ log = <<>>
    /\ trace = <<>>
    /\ exc = "none"

\* The process after parse_args (line 388)
Init ==
    /\ pc = "main"
    /\ args \in ArgSets
    /\ call = None
    /\ StoreInit
    /\ LocalsInit

-----------------------------------------------------------------------------
(* The script (lines 382-402) and the statements of the task functions *)

\* Lines 390-398
Dispatch ==
    /\ pc = "main"
    /\ log' = Append(log, "Timing task")
    /\ LET fn == SelectTask(args.task)
       IN  IF fn = "none"
           THEN pc' = "end" /\ UNCHANGED <<task_fn, ran>>
           ELSE pc' = Body(fn)[1] /\ task_fn' = fn /\ ran' = Append(ran, fn)
    /\ UNCHANGED <<args, files, bucketState, call, client, clientsCreated, dataset,
                   workflow, transformed_dataset, written, trace, exc>>

\* create_cluster (lines 105-124), called at lines 246-252, 273-279, 300-306
CreateCluster ==
    /\ pc = "create_cluster"
    /\ log' = Append(log, "Creating cluster")
    /\ trace' = Append(trace, "create_cluster")
    /\ clientsCreated' = clientsCreated + 1
    /\ client' = Client(clientsCreated + 1)
    /\ pc' = NextStmt(task_fn, "create_cluster")
    /\ UNCHANGED <<task_fn, ran, args, files, bucketState, call, dataset, workflow,
                   transformed_dataset, written, exc>>

\* Lines 254-262
CreateCsvDataset ==
    /\ pc = "create_csv_dataset"
    /\ log' = Append(log, "Creating CSV dataset")
    /\ trace' = Append(trace, "create_csv_dataset")
    /\ LET r == create_csv_dataset(args.csv_data_path, args.sep, FALSE,
                                   get_criteo_col_dtypes, args.frac_size, client)
       IN  IF r.raised # "none"
           THEN pc' = "crashed" /\ exc' = r.raised /\ UNCHANGED dataset
           ELSE /\ pc' = NextStmt(task_fn, "create_csv_dataset")
                /\ dataset' = r.value
                /\ UNCHANGED exc
    /\ UNCHANGED <<task_fn, ran, args, files, bucketState, call, client,
                   clientsCreated, workflow, transformed_dataset, written>>

\* Lines 264-269: shuffle is not passed and has the default None
ConvertCsvToParquet ==
    /\ pc = "convert_csv_to_parquet"
    /\ log' = Append(log, "Converting CSV to Parquet")
    /\ trace' = Append(trace, "to_parquet")
    /\ LET r == convert_csv_to_parquet(args.output_path, dataset,
                                       args.output_files, None)
       IN  IF r.raised # "none"
           THEN pc' = "crashed" /\ exc' = r.raised /\ UNCHANGED written
           ELSE /\ pc' = NextStmt(task_fn, "convert_csv_to_parquet")
                /\ written' = Append(written, r.value)
                /\ UNCHANGED exc
    /\ UNCHANGED <<task_fn, ran, args, files, bucketState, call, client,
                   clientsCreated, dataset, workflow, transformed_dataset>>

\* Lines 281-286 and 308-313
CreateParquetDataset ==
    /\ pc = "create_parquet_dataset"
    /\ log' = Append(log, "Creating Parquet dataset")
    /\ trace' = Append(trace, "create_parquet_dataset")
    /\ LET r == create_parquet_dataset(client, args.parquet_data_path,
                                       args.frac_size)
       IN  IF r.raised # "none"
           THEN pc' = "crashed" /\ exc' = r.raised /\ UNCHANGED dataset
           ELSE /\ pc' = NextStmt(task_fn, "create_parquet_dataset")
                /\ dataset' = r.value
                /\ UNCHANGED exc
    /\ UNCHANGED <<task_fn, ran, args, files, bucketState, call, client,
                   clientsCreated, workflow, transformed_dataset, written>>

\* Lines 288-290
CreateWorkflow ==
    /\ pc = "create_workflow"
    /\ log' = Append(log, "Creating Workflow")
    /\ trace' = Append(trace, "create_workflow")
    /\ workflow' = create_criteo_nvt_workflow(client)
    /\ pc' = NextStmt(task_fn, "create_workflow")
    /\ UNCHANGED <<task_fn, ran, args, files, bucketState, call, client,
                   clientsCreated, dataset, transformed_dataset, written, exc>>

\* Lines 292-293
AnalyzeDataset ==
    /\ pc = "analyze_dataset"
    /\ log' = Append(log, "Analyzing dataset")
    /\ trace' = Append(trace, "fit")
    /\ workflow' = analyze_dataset(workflow, dataset)
    /\ pc' = NextStmt(task_fn, "analyze_dataset")
    /\ UNCHANGED <<task_fn, ran, args, files, bucketState, call, client,
                   clientsCreated, dataset, transformed_dataset, written, exc>>

\* Lines 295-296
SaveWorkflow ==
    /\ pc = "save_workflow"
    /\ log' = Append(log, "Saving Workflow")
    /\ trace' = Append(trace, "save_workflow")
    /\ written' = Append(written, save_workflow(workflow, args.output_path))
    /\ pc' = NextStmt(task_fn, "save_workflow")
    /\ UNCHANGED <<task_fn, ran, args, files, bucketState, call, client,
                   clientsCreated, dataset, workflow, transformed_dataset, exc>>

\* Lines 315-319
LoadWorkflow ==
    /\ pc = "load_workflow"
    /\ log' = Append(log, "Loading Workflow")
    /\ trace' = Append(trace, "load_workflow")
    /\ workflow' = load_workflow(args.workflow_path, client)
    /\ pc' = NextStmt(task_fn, "load_workflow")
    /\ UNCHANGED <<task_fn, ran, args, files, bucketState, call, client,
                   clientsCreated, dataset, transformed_dataset, written, exc>>

\* Lines 321-325
TransformDataset ==
    /\ pc = "transform_dataset"
    /\ log' = Append(log, "Transforming Dataset")
    /\ trace' = Append(trace, "transform")
    /\ transformed_dataset' = transform_dataset(dataset, workflow)
    /\ pc' = NextStmt(task_fn, "transform_dataset")
    /\ UNCHANGED <<task_fn, ran, args, files, bucketState, call, client,
                   clientsCreated, dataset, workflow, written, exc>>

\* Lines 327-331: shuffle is not passed and has the default None
SaveDataset ==
    /\ pc = "save_dataset"
    /\ log' = Append(log, "Saving transformed dataset")
    /\ trace' = Append(trace, "to_parquet")
    /\ LET r == save_dataset(transformed_dataset, args.output_path, None)
       IN  IF r.raised # "none"
           THEN pc' = "crashed" /\ exc' = r.raised /\ UNCHANGED written
           ELSE /\ pc' = NextStmt(task_fn, "save_dataset")
                /\ written' = Append(written, r.value)
                /\ UNCHANGED exc
    /\ UNCHANGED <<task_fn, ran, args, files, bucketState, call, client,
                   clientsCreated, dataset, workflow, transformed_dataset>>

\* Lines 400-402
Finish ==
    /\ pc = "end"
    /\ log' = Append(log, "Task completed")
    /\ pc' = "done"
    /\ UNCHANGED <<task_fn, ran, args, files, bucketState, call, client,
                   clientsCreated, dataset, workflow, transformed_dataset, written,
                   trace, exc>>

Next ==
    \/ Dispatch
    \/ CreateCluster
    \/ CreateCsvDataset
    \/ ConvertCsvToParquet
    \/ CreateParquetDataset
    \/ CreateWorkflow
    \/ AnalyzeDataset
    \/ SaveWorkflow
    \/ LoadWorkflow
    \/ TransformDataset
    \/ SaveDataset
    \/ Finish

Spec == Init /\ [][Next]_vars

-----------------------------------------------------------------------------
(* create_csv_dataset called on its own, with any path list and either      *)
(* value of `recursive`                                                     *)

InitCsv ==
    /\ pc = "call"
    /\ args = Args(None, None, None)
    /\ call \in [fn : {"create_csv_dataset"},
                 data_paths : {PyList(l) : l \in SeqsUpTo(CsvPaths, MaxPaths)},
                 recursive : BOOLEAN]
    /\ StoreInit
    /\ LocalsInit

CallCreateCsvDataset ==
    /\ pc = "call"
    /\ call.fn = "create_csv_dataset"
    /\ trace' = Append(trace, "create_csv_dataset")
    /\ LET r == create_csv_dataset(call.data_paths, args.sep, call.recursive,
                                   get_criteo_col_dtypes, args.frac_size, client)
       IN  IF r.raised # "none"
           THEN pc' = "crashed" /\ exc' = r.raised /\ UNCHANGED dataset
           ELSE pc' = "returned" /\ dataset' = r.value /\ UNCHANGED exc
    /\ UNCHANGED <<task_fn, ran, args, files, bucketState, call, client,
                   clientsCreated, workflow, transformed_dataset, written, log>>

SpecCsv == InitCsv /\ [][CallCreateCsvDataset]_vars

-----------------------------------------------------------------------------
(* convert_csv_to_parquet and save_dataset called on their own, with any    *)
(* shuffle argument                                                         *)

ShuffleArgs ==
    {None, PyStr("None"), PyStr("PER_PARTITION"), PyStr("PER_WORKER"),
     PyStr("FULL"), PyStr("full"), PyStr(""), PyStr("random"),
     PyStr("__members__"), PyStr("__name__")}

\* A Parquet dataset over the files of the store
StoreDataset ==
    LET isIn(e) == e \in files
        sel == SelectSeq(AllEntries, isIn)
    IN  Dataset([j \in 1..Len(sel) |-> GsPath(sel[j])], "parquet", <<>>, None,
                <<>>, "0.10", None)

InitShuffle ==
    /\ pc = "call"
    /\ args = Args(None, None, None)
    /\ call \in [fn : {"convert_csv_to_parquet", "save_dataset"},
                 shuffle : ShuffleArgs]
    /\ files \in SUBSET FileUniverse
    /\ bucketState = [b \in Buckets |-> "ok"]
    /\ task_fn = "none"
    /\ ran = <<>>
    /\ client = None
    /\ clientsCreated = 0
    /\ dataset = StoreDataset
    /\ workflow = None
    /\ transformed_dataset = None
    /\ written = <<>>
    /\ log = <<>>
    /\ trace = <<>>
    /\ exc = "none"

CallConvertCsvToParquet ==
    /\ pc = "call"
    /\ call.fn = "convert_csv_to_parquet"
    /\ trace' = Append(trace, "to_parquet")
    /\ LET r == convert_csv_to_parquet(args.output_path, dataset,
                                       args.output_files, call.shuffle)
       IN  IF r.raised # "none"
           THEN pc' = "crashed" /\ exc' = r.raised /\ UNCHANGED written
           ELSE pc' = "returned" /\ written' = Append(written, r.value)
                /\ UNCHANGED exc
    /\ UNCHANGED <<task_fn, ran, args, files, bucketState, call, client,
                   clientsCreated, dataset, workflow, transformed_dataset, log>>

CallSaveDataset ==
    /\ pc = "call"
    /\ call.fn = "save_dataset"
    /\ trace' = Append(trace, "to_parquet")
    /\ LET r == save_dataset(dataset, args.output_path, call.shuffle)
       IN  IF r.raised # "none"
           THEN pc' = "crashed" /\ exc' = r.raised /\ UNCHANGED written
           ELSE pc' = "returned" /\ written' = Append(written, r.value)
                /\ UNCHANGED exc
    /\ UNCHANGED <<task_fn, ran, args, files, bucketState, call, client,
                   clientsCreated, dataset, workflow, transformed_dataset, log>>

NextShuffle == CallConvertCsvToParquet \/ CallSaveDataset

SpecShuffle == InitShuffle /\ [][NextShuffle]_vars

-----------------------------------------------------------------------------
(* Properties *)

Last(q) == q[Len(q)]

Count(q, x) == Cardinality({i \in 1..Len(q) : q[i] = x})

IsPrefixOf(p, q) == Len(p) <= Len(q) /\ \A i \in 1..Len(p) : p[i] = q[i]

RECURSIVE Concat(_, _)
Concat(f, n) == IF n = 0 THEN <<>> ELSE Concat(f, n - 1) \o f[n]

\* What one input path stands for: nothing when its lookup raises, itself
\* when it is a file, else the files its glob finds, each with 'gs://'.
FilesOfPath(path, rec) ==
    IF LookupError(path) # "none" THEN <<>>
    ELSE IF path.parts \in files THEN <<path>>
    ELSE LET pattern == [proto |-> path.proto,
                         parts |-> path.parts \o <<IF rec THEN "**" ELSE "*">>]
             isFile(e) == e.parts \in files
             found == SelectSeq(Glob(pattern), isFile)
         IN  [j \in 1..Len(found) |->
                 [proto |-> <<"gs://">>, parts |-> found[j].parts]]

\* C1: in main_convert, once create_csv_dataset has returned, the file list
\* of the dataset contains the files of every input path whose lookup did
\* not raise, whatever the position of the path in --csv_data_path.
C1_EveryNonFailingPathResolved ==
    (task_fn = "main_convert" /\ dataset # None) =>
        \A i \in 1..Len(args.csv_data_path.v) :
            Range(FilesOfPath(args.csv_data_path.v[i], FALSE))
                \subseteq Range(dataset.files)

\* C2: the dataset main_transform writes to --output_path is the result of
\* applying the workflow loaded from --workflow_path to the input dataset.
C2_TransformWritesTransformed ==
    \A i \in 1..Len(written) :
        (task_fn = "main_transform" /\ written[i].kind = "parquet") =>
            /\ written[i].content.applied # None
            /\ written[i].content.applied.origin = "loaded"
            /\ written[i].content.applied.source = args.workflow_path
            /\ written[i].content.files = dataset.files

\* C3: convert_csv_to_parquet and save_dataset hand to_parquet the enum
\* member when the shuffle argument names a member of Shuffle, and None for
\* every other argument (any other string, 'None', None); no exception
\* escapes.
C3_ShuffleResolution ==
    /\ call # None /\ call.fn \in {"convert_csv_to_parquet", "save_dataset"}
          => pc # "crashed"
    /\ (call # None /\ call.fn \in {"convert_csv_to_parquet", "save_dataset"}
          /\ pc = "returned") =>
        /\ Len(written) = 1
        /\ IF call.shuffle.t = "str" /\ call.shuffle.v \in ShuffleMembers
           THEN written[1].shuffle = [t |-> "Shuffle", v |-> call.shuffle.v]
           ELSE written[1].shuffle = None

\* C7: create_csv_dataset puts a path that is a file in the file list
\* unchanged, once; expands any other path with <path>/* (<path>/** when
\* recursive) and puts exactly the glob results that are files in the list,
\* each prefixed with 'gs://'; nothing that is not a file is in the list.
C7_PathResolution ==
    (call # None /\ call.fn = "create_csv_dataset" /\ pc = "returned"
        /\ Len(call.data_paths.v) >= 1) =>
        LET paths == call.data_paths.v
            each == [i \in 1..Len(paths) |-> FilesOfPath(paths[i], call.recursive)]
        IN  /\ dataset # None
            /\ Range(dataset.files) = Range(Concat(each, Len(paths)))
            /\ \A f \in Range(dataset.files) : f.parts \in files

EmptyParquetListing ==
    /\ task_fn \in {"main_analyse", "main_transform"}
    /\ Count(trace, "create_parquet_dataset") > 0
    /\ args.parquet_data_path # None
    /\ bucketState[args.parquet_data_path.parts[1]] = "ok"
    /\ \A f \in files :
          ~(/\ Len(f) = Len(args.parquet_data_path.parts) + 1
            /\ IsPrefix(args.parquet_data_path.parts, f)
            /\ Last(f) \in {"p.parquet"})

\* C4: when the listing of <parquet_data_path>/*.parquet is empty,
\* create_parquet_dataset raises FileNotFoundError and main_analyse and
\* main_transform run nothing after it: no dataset, no workflow, nothing
\* written, no 'Task completed', and the process has stopped.
C4_EmptyParquetListingIsFatal ==
    EmptyParquetListing =>
        /\ pc = "crashed"
        /\ exc = "FileNotFoundError"
        /\ Last(trace) = "create_parquet_dataset"
        /\ dataset = None
        /\ workflow = None
        /\ transformed_dataset = None
        /\ written = <<>>
        /\ Count(log, "Task completed") = 0
        /\ ~ENABLED Next

C4_Witness ==
    /\ EmptyParquetListing
    /\ task_fn = "main_transform"
    /\ pc = "crashed"
    /\ files # {}

ExpectedColumns ==
    << <<"label">>,
       <<"I", "1">>, <<"I", "2">>, <<"I", "3">>, <<"I", "4">>, <<"I", "5">>,
       <<"I", "6">>, <<"I", "7">>, <<"I", "8">>, <<"I", "9">>,
       <<"I", "1", "0">>, <<"I", "1", "1">>, <<"I", "1", "2">>,
       <<"I", "1", "3">>,
       <<"C", "1">>, <<"C", "2">>, <<"C", "3">>, <<"C", "4">>, <<"C", "5">>,
       <<"C", "6">>, <<"C", "7">>, <<"C", "8">>, <<"C", "9">>,
       <<"C", "1", "0">>, <<"C", "1", "1">>, <<"C", "1", "2">>,
       <<"C", "1", "3">>, <<"C", "1", "4">>, <<"C", "1", "5">>,
       <<"C", "1", "6">>, <<"C", "1", "7">>, <<"C", "1", "8">>,
       <<"C", "1", "9">>, <<"C", "2", "0">>, <<"C", "2", "1">>,
       <<"C", "2", "2">>, <<"C", "2", "3">>, <<"C", "2", "4">>,
       <<"C", "2", "5">>, <<"C", "2", "6">> >>

\* C5: the dtype mapping the CSV dataset is built with has exactly 40
\* entries with distinct keys, in the order label, I1..I13, C1..C26; label
\* and I1..I13 map to int32 and C1..C26 to 'hex'; the keys are the CSV
\* column names.
C5_ColDtypes ==
    (dataset # None /\ dataset.engine = "csv") =>
        /\ Len(dataset.dtypes) = 40
        /\ Cardinality({dataset.dtypes[i].k : i \in 1..Len(dataset.dtypes)}) = 40
        /\ \A i \in 1..40 :
              /\ dataset.dtypes[i].k = ExpectedColumns[i]
              /\ dataset.dtypes[i].v = IF i <= 14 THEN "int32" ELSE "hex"
        /\ dataset.names = ExpectedColumns

C5_Witness ==
    /\ task_fn = "main_convert"
    /\ pc = "convert_csv_to_parquet"
    /\ dataset # None
    /\ dataset.engine = "csv"
    /\ Len(dataset.dtypes) > 0

OpsOf(fn) ==
    IF fn = "main_convert"
    THEN {"create_cluster", "create_csv_dataset", "to_parquet"}
    ELSE IF fn = "main_analyse"
    THEN {"create_cluster", "create_parquet_dataset", "create_workflow", "fit",
          "save_workflow"}
    ELSE {"create_cluster", "create_parquet_dataset", "load_workflow",
          "transform", "to_parquet"}

\* C6: when --task is 'convert', 'analyse' or 'transform', exactly one task
\* function runs, main_convert, main_analyse or main_transform respectively,
\* and nothing of the other two runs.
C6_TaskSelectsOneFunction ==
    /\ Len(ran) <= 1
    /\ pc = "main" => ran = <<>>
    /\ \A t \in {"convert", "analyse", "transform"} :
          (args.task = PyStr(t) /\ pc # "main") =>
              /\ ran = << IF t = "convert" THEN "main_convert"
                          ELSE IF t = "analyse" THEN "main_analyse"
                          ELSE "main_transform" >>
              /\ task_fn = ran[1]
              /\ Range(trace) \subseteq OpsOf(ran[1])

C6_Witness ==
    /\ args.task = PyStr("analyse")
    /\ pc = "done"
    /\ ran = <<"main_analyse">>
    /\ Len(trace) = 5

\* C8: a task creates its client exactly once, before any dataset or
\* workflow is created, loaded, fitted, transformed or written, and every
\* dataset and workflow of the task is constructed with that client.
C8_ClientCreatedOnceAndFirst ==
    /\ clientsCreated <= 1
    /\ Count(trace, "create_cluster") = clientsCreated
    /\ clientsCreated = 0 => client = None
    /\ (trace # <<>>) => (trace[1] = "create_cluster" /\ clientsCreated = 1)
    /\ (dataset # None \/ workflow # None \/ transformed_dataset # None
          \/ written # <<>>) => clientsCreated = 1
    /\ clientsCreated = 1 => client = [t |-> "Client", id |-> 1]
    /\ dataset # None => dataset.client = client
    /\ workflow # None => workflow.client = client
    /\ transformed_dataset # None => transformed_dataset.client = client
    /\ \A i \in 1..Len(written) : written[i].content.client = client
    /\ (task_fn # "none" /\ pc \in {"end", "done"}) => clientsCreated = 1

C8_Witness ==
    /\ task_fn = "main_transform"
    /\ pc = "done"
    /\ clientsCreated = 1
    /\ Len(written) = 1
    /\ workflow # None

\* C9: main_analyse creates a fresh workflow, fits it and only then saves
\* it to --output_path (no workflow is saved unfitted); main_transform gets
\* its workflow only by loading it from --workflow_path and never creates,
\* fits or saves one.
C9_WorkflowLifecycle ==
    /\ task_fn = "main_analyse" =>
          /\ IsPrefixOf(trace, <<"create_cluster", "create_parquet_dataset",
                                 "create_workflow", "fit", "save_workflow">>)
          /\ workflow # None => workflow.origin = "fresh"
          /\ (workflow # None /\ workflow.fitted) => Count(trace, "fit") = 1
          /\ pc \in {"end", "done"} =>
                /\ Len(written) = 1
                /\ written[1].kind = "workflow"
                /\ written[1].path = args.output_path
    /\ \A i \in 1..Len(written) :
          written[i].kind = "workflow" =>
              /\ task_fn = "main_analyse"
              /\ written[i].content.origin = "fresh"
              /\ written[i].content.fitted
    /\ task_fn = "main_transform" =>
          /\ workflow # None =>
                /\ workflow.origin = "loaded"
                /\ workflow.source = args.workflow_path
          /\ Range(trace) \cap {"create_workflow", "fit", "save_workflow"} = {}

C9_Witness ==
    /\ task_fn = "main_analyse"
    /\ pc = "done"
    /\ Len(written) = 1
    /\ written[1].kind = "workflow"
    /\ written[1].content.fitted

\* C10: when --task is absent or is not 'convert', 'analyse' or
\* 'transform', no task function runs (no cluster, nothing read or written),
\* no error is raised, and the process logs 'Task completed' and ends.
C10_NoTaskSelected ==
    (args.task \notin {PyStr("convert"), PyStr("analyse"), PyStr("transform")}) =>
        /\ pc \in {"main", "end", "done"}
        /\ ran = <<>>
        /\ task_fn = "none"
        /\ clientsCreated = 0
        /\ client = None
        /\ dataset = None
        /\ workflow = None
        /\ trace = <<>>
        /\ written = <<>>
        /\ exc = "none"
        /\ pc # "done" => ENABLED Next
        /\ pc = "done" => log = <<"Timing task", "Task completed">>

C10_Witness ==
    /\ args.task = None
    /\ pc = "done"
    /\ Last(log) = "Task completed"

====
